---- MODULE Spec2Model ----
(***************************************************************************)
(* A model of reportlab_canvas_extension.Canvas: the drawing extension     *)
(* layer over a stateful drawing surface (ReportLab's stock Canvas).       *)
(*                                                                         *)
(* Numbers.  The code computes with floats; the model computes exactly in  *)
(* the field Q(sqrt 3): a number is a triple <<a, b, d>> standing for      *)
(* (a + b*sqrt(3)) / d, kept in lowest terms with d > 0, so that equal     *)
(* numbers are equal triples.  Angles are multiples of 30 degrees: an      *)
(* angle in degrees is an integer multiple of 30, an angle in radians is   *)
(* an integer k standing for k*pi/6, and the cosines and sines of these    *)
(* angles are numbers of Q(sqrt 3).  Floating-point rounding is not        *)
(* modelled.  None is the empty tuple, and an optional integer argument is *)
(* None or the one-element tuple <<n>>.                                    *)
(***************************************************************************)
EXTENDS Integers, Sequences, FiniteSets, TLC

VARIABLES
    stack,      \* the surface's graphics-state stack (saveState/restoreState)
    lineCap,    \* the surface's current line cap
    fontSize,   \* self.fontSize, the shadow font size
    lastSize,   \* history: the size of the last font call that set one
    pending,    \* the call about to be made, when the inputs are drawn first
    call,       \* the last operation: name, arguments, exception, return value
    out         \* the surface calls the last operation issued, in order

vars == <<stack, lineCap, fontSize, lastSize, pending, call, out>>

None == <<>>

(***************************************************************************)
(* Exact arithmetic                                                        *)
(***************************************************************************)
Abs(n) == IF n < 0 THEN -n ELSE n

RECURSIVE GCD(_, _)
GCD(m, n) == IF n = 0 THEN m ELSE GCD(n, m % n)

Norm(a, b, d) ==
    LET g == GCD(GCD(Abs(a), Abs(b)), d)
    IN  <<a \div g, b \div g, d \div g>>

Q(n) == <<n, 0, 1>>

Add(p, q) == Norm(p[1]*q[3] + q[1]*p[3], p[2]*q[3] + q[2]*p[3], p[3]*q[3])

Neg(p) == <<-p[1], -p[2], p[3]>>

Sub(p, q) == Add(p, Neg(q))

Mul(p, q) == Norm(p[1]*q[1] + 3*p[2]*q[2], p[1]*q[2] + p[2]*q[1], p[3]*q[3])

\* p / n for an integer n # 0
DivInt(p, n) ==
    IF n > 0 THEN Norm(p[1], p[2], p[3]*n) ELSE Norm(-p[1], -p[2], p[3]*(-n))

IsRational(p) == p[2] = 0

\* abs() of a rational number
AbsQ(p) == <<Abs(p[1]), p[2], p[3]>>

\* int(p / n) for a rational p >= 0 and an integer n > 0
IntDiv(p, n) == p[1] \div (p[3] * n)

RECURSIVE RootFrom(_, _)
RootFrom(n, s) == IF s * s >= n THEN s ELSE RootFrom(n, s + 1)

IsSquare(n) == n >= 0 /\ RootFrom(n, 0) * RootFrom(n, 0) = n

\* math.sqrt on the rationals a/d whose root is rational: sqrt(a/d) = sqrt(a*d)/d
Sqrt(p) == Norm(RootFrom(p[1] * p[3], 0), 0, p[3])

HasRoot(p) == IsRational(p) /\ IsSquare(p[1] * p[3])

\* math.radians on the multiples of 30 degrees, in units of pi/6
DegreesPerUnit == 30

Radians(deg) == deg \div DegreesPerUnit

\* math.cos and math.sin of k*pi/6
Cos(k) ==
    LET m == k % 12
    IN  CASE m = 0 -> <<1, 0, 1>>
          [] m \in {1, 11} -> <<0, 1, 2>>
          [] m \in {2, 10} -> <<1, 0, 2>>
          [] m \in {3, 9} -> <<0, 0, 1>>
          [] m \in {4, 8} -> <<-1, 0, 2>>
          [] m \in {5, 7} -> <<0, -1, 2>>
          [] m = 6 -> <<-1, 0, 1>>

Sin(k) == Cos(k - 3)

\* sqrt(dx*dx + dy*dy)
Hypot(dx, dy) == Sqrt(Add(Mul(dx, dx), Mul(dy, dy)))

HasLength(dx, dy) == HasRoot(Add(Mul(dx, dx), Mul(dy, dy)))

\* math.atan2(dy, dx) in units of pi/6, in (-pi, pi], for a vector along a
\* multiple of 30 degrees; atan2(0, 0) = 0
OnRay(dx, dy) ==
    /\ HasLength(dx, dy)
    /\ \E k \in -5..6 : /\ dx = Mul(Hypot(dx, dy), Cos(k))
                        /\ dy = Mul(Hypot(dx, dy), Sin(k))

Atan2(dy, dx) ==
    IF dx = Q(0) /\ dy = Q(0) THEN 0
    ELSE CHOOSE k \in -5..6 : /\ dx = Mul(Hypot(dx, dy), Cos(k))
                              /\ dy = Mul(Hypot(dx, dy), Sin(k))

(***************************************************************************)
(* The drawing surface (the stock Canvas): the calls the layer issues and  *)
(* their effect on the graphics state.                                     *)
(***************************************************************************)
SaveStateCall == [fn |-> "saveState", a |-> <<>>]

RestoreStateCall == [fn |-> "restoreState", a |-> <<>>]

SetLineCapCall(mode) == [fn |-> "setLineCap", a |-> <<mode>>]

LineCall(x1, y1, x2, y2) == [fn |-> "line", a |-> <<x1, y1, x2, y2>>]

\* the effect of one surface call on the graphics state g = [stack, lineCap]
SurfaceStep(g, c) ==
    CASE c.fn = "saveState" ->
            [stack |-> Append(g.stack, g.lineCap), lineCap |-> g.lineCap]
      [] c.fn = "restoreState" ->
            [stack |-> SubSeq(g.stack, 1, Len(g.stack) - 1),
             lineCap |-> g.stack[Len(g.stack)]]
      [] c.fn = "setLineCap" -> [stack |-> g.stack, lineCap |-> c.a[1]]
      [] OTHER -> g

RECURSIVE SurfaceRun(_, _)
SurfaceRun(g, cs) ==
    IF cs = <<>> THEN g ELSE SurfaceRun(SurfaceStep(g, Head(cs)), Tail(cs))

\* A method's outcome: the surface calls it issues, its return value and the
\* exception it raises ("none" when it returns normally).
Returns(cs, ret) == [calls |-> cs, ret |-> ret, raised |-> "none"]

Raises(cs, exc) == [calls |-> cs, ret |-> None, raised |-> exc]

\* The surface raises in the failAt-th call of cs (0: in none): the calls after
\* it are never issued and the exception propagates, no handler being installed.
Propagate(res, failAt) ==
    IF failAt = 0 \/ failAt > Len(res.calls) THEN res
    ELSE Raises(SubSeq(res.calls, 1, failAt), "SurfaceError")

(***************************************************************************)
(* Polar and relative lines                                                *)
(***************************************************************************)
lineAngle(x1, y1, r, theta, radians) ==
    LET t == IF radians THEN theta ELSE Radians(theta)
        x2 == Add(Mul(r, Cos(t)), x1)
        y2 == Add(Mul(r, Sin(t)), y1)
    IN  Returns(<<LineCall(x1, y1, x2, y2)>>, <<x2, y2>>)

lineRelative(x1, y1, dx, dy) ==
    LET x2 == Add(x1, dx)
        y2 == Add(y1, dy)
    IN  Returns(<<LineCall(x1, y1, x2, y2)>>, <<x2, y2>>)

linePolarRelative(x, y, r1, theta1, dr, dtheta, radians) ==
    LET t1 == IF radians THEN theta1 ELSE Radians(theta1)
        dt == IF radians THEN dtheta ELSE Radians(dtheta)
        x1 == Add(Mul(r1, Cos(t1)), x)
        y1 == Add(Mul(r1, Sin(t1)), y)
    IN  lineAngle(x1, y1, dr, dt, TRUE)

linePolar(x, y, r1, theta1, r2, theta2, radians) ==
    LET t1 == IF radians THEN theta1 ELSE Radians(theta1)
        t2 == IF radians THEN theta2 ELSE Radians(theta2)
        x1 == Add(Mul(r1, Cos(t1)), x)
        y1 == Add(Mul(r1, Sin(t1)), y)
        x2 == Add(Mul(r2, Cos(t2)), x)
        y2 == Add(Mul(r2, Sin(t2)), y)
    IN  Returns(<<LineCall(x1, y1, x2, y2)>>, <<x2, y2>>)

(***************************************************************************)
(* Dashed lines                                                            *)
(***************************************************************************)
DashUnit == 30

MinDashes == 2

\* one dash fewer than the code draws
DefaultDashesShort(length) == IntDiv(length, DashUnit) + MinDashes - 1

\* int(length / 30) + 2, for a rational length >= 0
DefaultDashes(length) == IntDiv(length, DashUnit) + MinDashes

\* the span cut with a gap after the last dash as well
DivisionsWithTrailingGap(num_dashes) == num_dashes * 2 + 1

\* num_dashes*2 - 1, the number of equal parts of the span
Divisions(num_dashes) == num_dashes * 2 - 1

\* 2*i*dash + x1, where the i-th dash starts
DashStart(i, dash, x1) == Add(Mul(Q(2 * i), dash), x1)

\* for i in range(num_dashes): self.lineRelative(...)
Dashes(x1, y1, dash_base, dash_height, num_dashes) ==
    [j \in 1..num_dashes |->
        lineRelative(DashStart(j - 1, dash_base, x1),
                     DashStart(j - 1, dash_height, y1),
                     dash_base, dash_height).calls[1]]

lineAngleDashed(x1, y1, r, theta, radians, num_dashes) ==
    LET t == IF radians THEN theta ELSE Radians(theta)
        n == IF num_dashes = None THEN DefaultDashes(AbsQ(r)) ELSE num_dashes[1]
        dash_length == DivInt(r, Divisions(n))
        dash_base == Mul(dash_length, Cos(t))
        dash_height == Mul(dash_length, Sin(t))
    IN  Returns(Dashes(x1, y1, dash_base, dash_height, n),
                <<Add(Mul(Q(2 * n - 1), dash_base), x1),
                  Add(Mul(Q(2 * n - 1), dash_height), y1)>>)

lineDashed(x1, y1, x2, y2, num_dashes) ==
    LET n == IF num_dashes = None
             THEN DefaultDashes(Hypot(Sub(x2, x1), Sub(y2, y1)))
             ELSE num_dashes[1]
        dash_base == DivInt(Sub(x2, x1), Divisions(n))
        dash_height == DivInt(Sub(y2, y1), Divisions(n))
    IN  Returns(Dashes(x1, y1, dash_base, dash_height, n), None)

linePolarDashed(x, y, r1, theta1, r2, theta2, radians, num_dashes) ==
    LET t1 == IF radians THEN theta1 ELSE Radians(theta1)
        t2 == IF radians THEN theta2 ELSE Radians(theta2)
        x1 == Add(Mul(r1, Cos(t1)), x)
        y1 == Add(Mul(r1, Sin(t1)), y)
        x2 == Add(Mul(r2, Cos(t2)), x)
        y2 == Add(Mul(r2, Sin(t2)), y)
    IN  Returns(lineDashed(x1, y1, x2, y2, num_dashes).calls, <<x2, y2>>)

linePolarRelativeDashed(x, y, r1, theta1, dr, dtheta, radians, num_dashes) ==
    LET t1 == IF radians THEN theta1 ELSE Radians(theta1)
        dt == IF radians THEN dtheta ELSE Radians(dtheta)
        x1 == Add(Mul(r1, Cos(t1)), x)
        y1 == Add(Mul(r1, Sin(t1)), y)
    IN  lineAngleDashed(x1, y1, dr, dt, TRUE, num_dashes)

lineRelativeDashed(x1, y1, dx, dy, num_dashes) ==
    LET x2 == Add(x1, dx)
        y2 == Add(y1, dy)
    IN  Returns(lineDashed(x1, y1, x2, y2, num_dashes).calls, <<x2, y2>>)

(***************************************************************************)
(* Arrows                                                                  *)
(***************************************************************************)
RoundCap == 1

BarbDegrees == 150

\* 0.083333, the default ratio of the head length to the shaft length
HeadRatioNum == 83333

HeadRatioDen == 1000000

DefaultHeadLength(dx, dy) == Mul(<<HeadRatioNum, 0, HeadRatioDen>>, Hypot(dx, dy))

\* the direction of the barb on side s (1 or -1) of a shaft of direction theta
BarbTheta(theta, s) == theta + s * Radians(BarbDegrees)

\* the two barb lines drawn from (x2, y2)
Barbs(x2, y2, h, theta) ==
    lineAngle(x2, y2, h, BarbTheta(theta, 1), TRUE).calls
        \o lineAngle(x2, y2, h, BarbTheta(theta, -1), TRUE).calls

\* the scope left open: no restoreState
ArrowExitWithoutRestore == <<>>

\* what closes the scope opened by saveState
ArrowExit == <<RestoreStateCall>>

arrow(x1, y1, x2, y2, arrowheadlength) ==
    LET h == IF arrowheadlength = None
             THEN DefaultHeadLength(Sub(x2, x1), Sub(y2, y1))
             ELSE arrowheadlength
        theta == Atan2(Sub(y2, y1), Sub(x2, x1))
    IN  Returns(<<SaveStateCall, SetLineCapCall(RoundCap), LineCall(x1, y1, x2, y2)>>
                    \o Barbs(x2, y2, h, theta) \o ArrowExit,
                None)

arrowAngle(x1, y1, r, theta, radians, arrowheadlength) ==
    LET t == IF radians THEN theta ELSE Radians(theta)
        shaft == lineAngle(x1, y1, r, t, TRUE)
        x2 == shaft.ret[1]
        y2 == shaft.ret[2]
        h == IF arrowheadlength = None
             THEN DefaultHeadLength(Sub(x2, x1), Sub(y2, y1))
             ELSE arrowheadlength
    IN  Returns(<<SaveStateCall, SetLineCapCall(RoundCap)>> \o shaft.calls
                    \o Barbs(x2, y2, h, t) \o ArrowExit,
                <<x2, y2>>)

arrowPolar(x, y, r1, theta1, r2, theta2, radians, arrowheadlength) ==
    LET t1 == IF radians THEN theta1 ELSE Radians(theta1)
        t2 == IF radians THEN theta2 ELSE Radians(theta2)
        x1 == Add(Mul(r1, Cos(t1)), x)
        y1 == Add(Mul(r1, Sin(t1)), y)
        x2 == Add(Mul(r2, Cos(t2)), x)
        y2 == Add(Mul(r2, Sin(t2)), y)
    IN  Returns(arrow(x1, y1, x2, y2, arrowheadlength).calls, <<x2, y2>>)

\* With radians false the method reads theta2, a name it never binds: NameError,
\* raised before any surface call.
arrowPolarRelative(x, y, r1, theta1, dr, dtheta, radians, arrowheadlength) ==
    IF ~radians THEN Raises(<<>>, "NameError")
    ELSE LET x1 == Add(Mul(r1, Cos(theta1)), x)
             y1 == Add(Mul(r1, Sin(theta1)), y)
         IN  arrowAngle(x1, y1, dr, dtheta, TRUE, arrowheadlength)

arrowRelative(x1, y1, dx, dy, arrowheadlength) ==
    LET x2 == Add(x1, dx)
        y2 == Add(y1, dy)
    IN  Returns(arrow(x1, y1, x2, y2, arrowheadlength).calls, <<x2, y2>>)

(***************************************************************************)
(* Anchored placement.  An anchor is a sequence of one-character strings;  *)
(* an image is its intrinsic size <<img_width, img_height>>, both positive *)
(* integers; x, y and the sizes given are integers.                        *)
(***************************************************************************)
DrawImageCall(x, y, width, height) ==
    [fn |-> "drawImage", a |-> <<x, y, width, height>>]

\* drawString, drawRightString or drawCentredString
DrawTextCall(fn, x, y, text) == [fn |-> fn, a |-> <<x, y, text>>]

\* _text2Path(text, fontSize=...).getBounds(), the text measurement
MeasureCall(text, size) == [fn |-> "_text2Path", a |-> <<text, size>>]

\* integer division rounding towards zero
TruncDiv(a, b) == IF a >= 0 THEN a \div b ELSE -((-a) \div b)

\* the scaled size truncated instead of floored
ScaledTruncating(size, num, den) == TruncDiv(size * num, den)

\* size * num // den, Python's floor division by a positive integer
Scaled(size, num, den) == (size * num) \div den

Half == <<1, 0, 2>>

\* anchor[-1] and anchor[0] of a non-empty anchor
Last(anchor) == anchor[Len(anchor)]

First(anchor) == anchor[1]

\* the horizontal offsets of w and e exchanged
XOffsetMirrored(anchor, width) ==
    IF Last(anchor) = "e" THEN Q(0)
    ELSE IF Last(anchor) = "w" THEN width
    ELSE Mul(Half, width)

XOffset(anchor, width) ==
    IF Last(anchor) = "w" THEN Q(0)
    ELSE IF Last(anchor) = "e" THEN width
    ELSE Mul(Half, width)

YOffset(anchor, height) ==
    IF First(anchor) = "s" THEN Q(0)
    ELSE IF First(anchor) = "n" THEN height
    ELSE Mul(Half, height)

drawAnchoredImage(image, x, y, width, height, anchor) ==
    LET img_width == image[1]
        img_height == image[2]
        w == CASE width = None /\ height = None -> img_width
               [] width = None /\ height # None ->
                     Scaled(height[1], img_width, img_height)
               [] OTHER -> width[1]
        h == CASE width = None /\ height = None -> img_height
               [] width # None /\ height = None ->
                     Scaled(width[1], img_height, img_width)
               [] width = None /\ height # None -> height[1]
               [] OTHER -> height[1]
    IN  IF anchor = <<>> THEN Raises(<<>>, "IndexError")
        ELSE Returns(<<DrawImageCall(Sub(Q(x), XOffset(anchor, Q(w))),
                                     Sub(Q(y), YOffset(anchor, Q(h))), w, h)>>,
                     image)

\* The height of a text's bounding box at a font size, in thousandths of a
\* point: the texts are told apart by the height of their glyphs per point.
TextHeight(text, size) ==
    LET perPoint == CASE text = "" -> 0
                      [] text = "x" -> 500
                      [] text = "Ag" -> 900
    IN  <<perPoint * size, 0, 1000>>

drawAnchoredString(x, y, text, anchor, size) ==
    LET text_height == Norm(TextHeight(text, size)[1], 0, TextHeight(text, size)[3])
        measured == <<MeasureCall(text, size)>>
    IN  IF anchor = <<>> THEN Raises(measured, "IndexError")
        ELSE LET y_offset == YOffset(anchor, text_height)
                 fn == IF Last(anchor) = "w" THEN "drawString"
                       ELSE IF Last(anchor) = "e" THEN "drawRightString"
                       ELSE "drawCentredString"
             IN  Returns(measured \o <<DrawTextCall(fn, Q(x), Sub(Q(y), y_offset), text)>>,
                         None)

RectCall(x, y, width, height) == [fn |-> "rect", a |-> <<x, y, width, height>>]

rectCoords(x1, y1, x2, y2) == Returns(<<RectCall(x1, y1, x2 - x1, y2 - y1)>>, None)

(***************************************************************************)
(* Font-size tracking                                                      *)
(***************************************************************************)
\* self.fontSize = 12 in __init__
DefaultFontSize == 12

KnownFonts == {"Helvetica", "Courier"}

\* super().setFont(psfontname, size): raises for a font it does not know
StockSetFont(psfontname, size) ==
    IF psfontname \in KnownFonts
    THEN Returns(<<[fn |-> "setFont", a |-> <<psfontname, size>>]>>, None)
    ELSE Raises(<<[fn |-> "setFont", a |-> <<psfontname, size>>]>>, "SurfaceError")

\* self.fontSize after setFont(psfontname, size), the surface having returned
ShadowAfterSetFont(size, current) == size

\* setFontSize() without a size falling back to the default size
ShadowResetWithoutSize(size, current) ==
    IF size # None THEN size[1] ELSE DefaultFontSize

\* self.fontSize after setFontSize(size), size being None or <<n>>
ShadowAfterSetFontSize(size, current) == IF size # None THEN size[1] ELSE current

(***************************************************************************)
(* Operations as actions.  An action runs a whole method: it records the   *)
(* surface calls issued and applies those that took effect to the graphics *)
(* state (a call in which the surface raises has no effect).               *)
(***************************************************************************)
Effective(res) ==
    IF res.raised = "SurfaceError"
    THEN SubSeq(res.calls, 1, Len(res.calls) - 1)
    ELSE res.calls

\* the angle k*pi/6 as an argument, in radians or in degrees
Angle(k, radians) == IF radians THEN k ELSE k * DegreesPerUnit

NoRequest == [op |-> "none", args |-> <<>>]

Request(name, args) == [op |-> name, args |-> args]

\* the arguments of the pending call, if it is a call of method name
Args(name) == IF pending.op = name THEN {pending.args} ELSE {}

Do(name, args, res) ==
    /\ call' = [op |-> name, args |-> args, raised |-> res.raised, ret |-> res.ret]
    /\ out' = res.calls
    /\ pending' = NoRequest
    /\ LET g == SurfaceRun([stack |-> stack, lineCap |-> lineCap], Effective(res))
       IN  stack' = g.stack /\ lineCap' = g.lineCap

MaxDepth == 2

LineCaps == {0, 1, 2}

\* the surface's own saveState, restoreState and setLineCap, called directly
SaveState ==
    /\ Len(stack) < MaxDepth
    /\ Do("saveState", <<>>, Returns(<<SaveStateCall>>, None))
    /\ UNCHANGED <<fontSize, lastSize>>

RestoreState ==
    /\ Len(stack) > 0
    /\ Do("restoreState", <<>>, Returns(<<RestoreStateCall>>, None))
    /\ UNCHANGED <<fontSize, lastSize>>

SetLineCap ==
    \E mode \in LineCaps :
        /\ Do("setLineCap", <<mode>>, Returns(<<SetLineCapCall(mode)>>, None))
        /\ UNCHANGED <<fontSize, lastSize>>

\* The arrow family, on argument tuples drawn from A, with the surface raising
\* in the call numbered by F (0: in none).
Arrow(A, F) ==
    \E a \in A, f \in F :
        /\ Len(stack) < MaxDepth
        /\ Do("arrow", a, Propagate(arrow(a[1], a[2], a[3], a[4], a[5]), f))
        /\ UNCHANGED <<fontSize, lastSize>>

ArrowAngle(A, F) ==
    \E a \in A, f \in F :
        /\ Len(stack) < MaxDepth
        /\ Do("arrowAngle", a,
              Propagate(arrowAngle(a[1], a[2], a[3], a[4], a[5], a[6]), f))
        /\ UNCHANGED <<fontSize, lastSize>>

ArrowPolar(A, F) ==
    \E a \in A, f \in F :
        /\ Len(stack) < MaxDepth
        /\ Do("arrowPolar", a,
              Propagate(arrowPolar(a[1], a[2], a[3], a[4], a[5], a[6], a[7], a[8]), f))
        /\ UNCHANGED <<fontSize, lastSize>>

ArrowPolarRelative(A, F) ==
    \E a \in A, f \in F :
        /\ Len(stack) < MaxDepth
        /\ Do("arrowPolarRelative", a,
              Propagate(arrowPolarRelative(a[1], a[2], a[3], a[4], a[5], a[6],
                                           a[7], a[8]), f))
        /\ UNCHANGED <<fontSize, lastSize>>

ArrowRelative(A, F) ==
    \E a \in A, f \in F :
        /\ Len(stack) < MaxDepth
        /\ Do("arrowRelative", a,
              Propagate(arrowRelative(a[1], a[2], a[3], a[4], a[5]), f))
        /\ UNCHANGED <<fontSize, lastSize>>

\* the state after Canvas.__init__, about to make the call req
InitWith(req) ==
    /\ stack = <<>>
    /\ lineCap = 0
    /\ fontSize = DefaultFontSize
    /\ lastSize = DefaultFontSize
    /\ pending = req
    /\ call = [op |-> "__init__", args |-> <<>>, raised |-> "none", ret |-> None]
    /\ out = <<>>

Init == InitWith(NoRequest)

(***************************************************************************)
(* SpecState: sequences of arrow-family calls and of the surface's own     *)
(* state calls, with the surface free to raise in any call made between    *)
(* saveState and restoreState.                                             *)
(***************************************************************************)
\* 0: no call raises; 2..5: setLineCap, the shaft line, the first and the
\* second barb line
FailPoints == {0, 2, 3, 4, 5}

StateHeads == {None, Q(1)}

StateArrowArgs == {<<Q(0), Q(0), Q(x2), Q(0), h>> : x2 \in {0, 1}, h \in StateHeads}

StateAngleArgs ==
    {<<Q(0), Q(0), Q(1), theta, FALSE, h>> : theta \in {0, 90}, h \in StateHeads}

StatePolarArgs ==
    {<<Q(0), Q(0), Q(1), theta, Q(2), theta, FALSE, None>> : theta \in {0, 90}}

StatePolarRelativeArgs ==
    {<<Q(0), Q(0), Q(1), 0, Q(1), Angle(3, radians), radians, None>> :
        radians \in BOOLEAN}

NextState ==
    \/ SaveState
    \/ RestoreState
    \/ SetLineCap
    \/ Arrow(StateArrowArgs, FailPoints)
    \/ ArrowAngle(StateAngleArgs, FailPoints)
    \/ ArrowPolar(StatePolarArgs, FailPoints)
    \/ ArrowPolarRelative(StatePolarRelativeArgs, FailPoints)
    \/ ArrowRelative(StateArrowArgs, FailPoints)

SpecState == Init /\ [][NextState]_vars

ArrowFamily == {"arrow", "arrowAngle", "arrowPolar", "arrowRelative"}

IsLine(c) == c.fn = "line"

Count(cs, name) == Len(SelectSeq(cs, LAMBDA c : c.fn = name))

\* C1: an arrow-family call that returns normally leaves the graphics-state
\* stack and the line cap as they were before the call, over any sequence of
\* calls: it issues exactly one saveState, first, and one restoreState, last.
C1_ArrowKeepsGraphicsState ==
    [][(call'.op \in ArrowFamily /\ call'.raised = "none")
          => /\ stack' = stack
             /\ lineCap' = lineCap
             /\ Count(out', "saveState") = 1
             /\ Count(out', "restoreState") = 1
             /\ Head(out').fn = "saveState"
             /\ out'[Len(out')].fn = "restoreState"]_vars

\* a square cap set at depth 1 has survived an arrowPolar call
C1_Witness ==
    /\ call.op = "arrowPolar"
    /\ call.raised = "none"
    /\ Len(stack) = 1
    /\ lineCap = 2
    /\ Count(out, "setLineCap") = 1

\* C2: when a surface call made between saveState and restoreState raises in
\* arrow or arrowAngle, the graphics-state stack and the line cap are still as
\* they were before the call.
C2_RestoreOnEveryExit ==
    [][(call'.op \in {"arrow", "arrowAngle"} /\ call'.raised = "SurfaceError")
          => (stack' = stack /\ lineCap' = lineCap)]_vars

(***************************************************************************)
(* SpecArrow: one arrow-family call on drawn arguments, no call raising.   *)
(***************************************************************************)
MaxCoord == 1

MaxLen == 2

Coords == -MaxCoord..MaxCoord

Lens == -MaxLen..MaxLen

Turns == 0..11

ArrowHeads == {None, Q(0), Q(1)}

ArrowRequests ==
    {Request("arrow", <<Q(x1), Q(y1), Q(x2), Q(y2), h>>) :
        x1 \in Coords, y1 \in Coords, x2 \in Coords, y2 \in Coords, h \in ArrowHeads}

ArrowAngleRequests ==
    {Request("arrowAngle", <<Q(x1), Q(y1), Q(r), Angle(k, radians), radians, h>>) :
        x1 \in Coords, y1 \in Coords, r \in Lens, k \in Turns,
        radians \in BOOLEAN, h \in ArrowHeads}

ArrowPolarRequests ==
    {Request("arrowPolar", <<Q(0), Q(y), Q(r1), Angle(k, radians), Q(r2),
                             Angle(k, radians), radians, h>>) :
        y \in Coords, r1 \in Lens, r2 \in Lens, k \in Turns,
        radians \in BOOLEAN, h \in ArrowHeads}

ArrowPolarRelativeRequests ==
    {Request("arrowPolarRelative",
             <<Q(0), Q(y), Q(r1), Angle(k1, radians), Q(dr), Angle(dk, radians),
               radians, None>>) :
        y \in Coords, r1 \in 0..MaxLen, k1 \in Turns, dr \in Lens, dk \in Turns,
        radians \in BOOLEAN}

ArrowRelativeRequests ==
    {Request("arrowRelative", <<Q(x1), Q(y1), Q(dx), Q(dy), h>>) :
        x1 \in Coords, y1 \in Coords, dx \in Lens, dy \in Lens, h \in ArrowHeads}

\* arrow takes the direction of its shaft from atan2: the drawn shafts lie
\* along a multiple of 30 degrees
Aligned(req) ==
    CASE req.op = "arrow" ->
            OnRay(Sub(req.args[3], req.args[1]), Sub(req.args[4], req.args[2]))
      [] req.op = "arrowRelative" -> OnRay(req.args[3], req.args[4])
      [] OTHER -> TRUE

InitArrow ==
    \E req \in ArrowRequests \cup ArrowAngleRequests \cup ArrowPolarRequests
                \cup ArrowPolarRelativeRequests \cup ArrowRelativeRequests :
        Aligned(req) /\ InitWith(req)

NextArrow ==
    \/ Arrow(Args("arrow"), {0})
    \/ ArrowAngle(Args("arrowAngle"), {0})
    \/ ArrowPolar(Args("arrowPolar"), {0})
    \/ ArrowPolarRelative(Args("arrowPolarRelative"), {0})
    \/ ArrowRelative(Args("arrowRelative"), {0})

SpecArrow == InitArrow /\ [][NextArrow]_vars

\* C4: arrowPolarRelative completes without error for either angle unit, draws
\* the shaft from the first point and returns the endpoint linePolarRelative
\* returns for the same arguments.
C4_PolarRelativeCompletes ==
    call.op = "arrowPolarRelative" =>
        LET a == call.args
            t1 == IF a[7] THEN a[4] ELSE Radians(a[4])
            shaft == SelectSeq(out, IsLine)
        IN  /\ call.raised = "none"
            /\ call.ret = linePolarRelative(a[1], a[2], a[3], a[4], a[5], a[6], a[7]).ret
            /\ Len(shaft) = 3
            /\ shaft[1].a[1] = Add(a[1], Mul(a[3], Cos(t1)))
            /\ shaft[1].a[2] = Add(a[2], Mul(a[3], Sin(t1)))
            /\ shaft[1].a[3] = call.ret[1]
            /\ shaft[1].a[4] = call.ret[2]

\* the line from (x, y) of length h in direction k*pi/6
Polar(x, y, h, k) ==
    LineCall(x, y, Add(x, Mul(h, Cos(k))), Add(y, Mul(h, Sin(k))))

\* C8: arrow and arrowAngle issue the shaft line and then exactly two barb
\* lines from the endpoint, of one length, at the shaft direction plus and minus
\* 150 degrees, the shaft direction being the direction from the start point to
\* the endpoint; and arrowAngle issues the lines arrow issues for the endpoint
\* arrowAngle returns.
C8_BarbsAboutShaftDirection ==
    (call.op \in {"arrow", "arrowAngle"} /\ call.raised = "none") =>
        LET lines == SelectSeq(out, IsLine)
            x1 == lines[1].a[1]
            y1 == lines[1].a[2]
            x2 == lines[1].a[3]
            y2 == lines[1].a[4]
            given == call.args[Len(call.args)]
            h == IF given = None THEN DefaultHeadLength(Sub(x2, x1), Sub(y2, y1))
                 ELSE given
            dir == Atan2(Sub(y2, y1), Sub(x2, x1))
        IN  /\ Len(lines) = 3
            /\ x1 = call.args[1] /\ y1 = call.args[2]
            /\ lines[2] = Polar(x2, y2, h, dir + 5)
            /\ lines[3] = Polar(x2, y2, h, dir - 5)
            /\ call.op = "arrowAngle" =>
                 /\ call.ret = <<x2, y2>>
                 /\ SelectSeq(arrow(x1, y1, x2, y2, given).calls, IsLine) = lines

(***************************************************************************)
(* SpecDash: one line or dashed-line call on drawn arguments.              *)
(***************************************************************************)
LineAngle(A) ==
    \E a \in A :
        /\ Do("lineAngle", a, lineAngle(a[1], a[2], a[3], a[4], a[5]))
        /\ UNCHANGED <<fontSize, lastSize>>

LineAngleDashed(A) ==
    \E a \in A :
        /\ Do("lineAngleDashed", a,
             lineAngleDashed(a[1], a[2], a[3], a[4], a[5], a[6]))
        /\ UNCHANGED <<fontSize, lastSize>>

LineDashed(A) ==
    \E a \in A :
        /\ Do("lineDashed", a, lineDashed(a[1], a[2], a[3], a[4], a[5]))
        /\ UNCHANGED <<fontSize, lastSize>>

LinePolar(A) ==
    \E a \in A :
        /\ Do("linePolar", a, linePolar(a[1], a[2], a[3], a[4], a[5], a[6], a[7]))
        /\ UNCHANGED <<fontSize, lastSize>>

LinePolarDashed(A) ==
    \E a \in A :
        /\ Do("linePolarDashed", a,
             linePolarDashed(a[1], a[2], a[3], a[4], a[5], a[6], a[7], a[8]))
        /\ UNCHANGED <<fontSize, lastSize>>

LinePolarRelative(A) ==
    \E a \in A :
        /\ Do("linePolarRelative", a,
             linePolarRelative(a[1], a[2], a[3], a[4], a[5], a[6], a[7]))
        /\ UNCHANGED <<fontSize, lastSize>>

LinePolarRelativeDashed(A) ==
    \E a \in A :
        /\ Do("linePolarRelativeDashed", a,
             linePolarRelativeDashed(a[1], a[2], a[3], a[4], a[5], a[6], a[7], a[8]))
        /\ UNCHANGED <<fontSize, lastSize>>

LineRelative(A) ==
    \E a \in A :
        /\ Do("lineRelative", a, lineRelative(a[1], a[2], a[3], a[4]))
        /\ UNCHANGED <<fontSize, lastSize>>

LineRelativeDashed(A) ==
    \E a \in A :
        /\ Do("lineRelativeDashed", a,
             lineRelativeDashed(a[1], a[2], a[3], a[4], a[5]))
        /\ UNCHANGED <<fontSize, lastSize>>

\* the lengths within one unit of a multiple of 30, up to MaxSpans multiples
MaxSpans == 2

MaxDashes == 3

SpanLens ==
    {n \in {DashUnit * k + d : k \in 0..MaxSpans, d \in {-1, 0, 1}} : n >= 0}

DashLens == SpanLens \cup {-n : n \in SpanLens}

\* legs of right triangles with sides in the ratio 3:4:5
Legs == {s * m * (DashUnit \div 5) : s \in {-1, 1}, m \in {3, 4, 6, 8}}

Deltas == DashLens \cup Legs

DashCounts == {None} \cup {<<n>> : n \in 0..MaxDashes}

RightTurns == {0, 3, 6, 9}

LineRequests ==
    {Request("lineAngle", <<Q(1), Q(-1), Q(r), Angle(k, radians), radians>>) :
        r \in DashLens, k \in Turns, radians \in BOOLEAN}
    \cup
    {Request("lineRelative", <<Q(1), Q(-1), Q(dx), Q(dy)>>) :
        dx \in Deltas, dy \in Deltas}
    \cup
    {Request("linePolar", <<Q(1), Q(-1), Q(r1), Angle(k1, radians), Q(r2),
                            Angle(k2, radians), radians>>) :
        r1 \in Legs, k1 \in {0, 1}, r2 \in Legs, k2 \in {3, 7}, radians \in BOOLEAN}
    \cup
    {Request("linePolarRelative",
             <<Q(1), Q(-1), Q(r1), Angle(k1, radians), Q(dr), Angle(dk, radians),
               radians>>) :
        r1 \in {0, 1}, k1 \in {0, 4}, dr \in SpanLens, dk \in Turns,
        radians \in BOOLEAN}

DashedRequests ==
    {Request("lineAngleDashed",
             <<Q(1), Q(-1), Q(r), Angle(k, radians), radians, n>>) :
        r \in DashLens, k \in Turns, radians \in BOOLEAN, n \in DashCounts}
    \cup
    {Request("lineDashed", <<Q(1), Q(-1), Q(1 + dx), Q(dy - 1), n>>) :
        dx \in Deltas, dy \in Deltas, n \in DashCounts}
    \cup
    {Request("lineRelativeDashed", <<Q(1), Q(-1), Q(dx), Q(dy), n>>) :
        dx \in Deltas, dy \in Deltas, n \in DashCounts}
    \cup
    {Request("linePolarDashed",
             <<Q(1), Q(-1), Q(r1), Angle(k1, radians), Q(r2), Angle(k2, radians),
               radians, n>>) :
        r1 \in Legs \cup {0}, k1 \in RightTurns, r2 \in Legs \cup {0},
        k2 \in RightTurns, radians \in BOOLEAN, n \in {None, <<1>>}}
    \cup
    {Request("linePolarRelativeDashed",
             <<Q(1), Q(-1), Q(r1), Angle(k1, radians), Q(dr), Angle(dk, radians),
               radians, n>>) :
        r1 \in {0, 1}, k1 \in {0, 4}, dr \in DashLens, dk \in {0, 1, 5, 9},
        radians \in BOOLEAN, n \in {None, <<2>>}}

\* the segment's two ends, as the caller gives them
Ends(req) ==
    LET a == req.args
    IN  CASE req.op = "lineDashed" -> <<a[1], a[2], a[3], a[4]>>
          [] req.op = "lineRelativeDashed" ->
                <<a[1], a[2], Add(a[1], a[3]), Add(a[2], a[4])>>
          [] req.op = "linePolarDashed" ->
                linePolar(a[1], a[2], a[3], a[4], a[5], a[6], a[7]).calls[1].a
          [] req.op = "lineAngleDashed" ->
                lineAngle(a[1], a[2], a[3], a[4], a[5]).calls[1].a
          [] req.op = "linePolarRelativeDashed" ->
                linePolarRelative(a[1], a[2], a[3], a[4], a[5], a[6], a[7]).calls[1].a

\* the Cartesian and polar forms take the square root of the squared length:
\* the drawn segments have a rational length
Measurable(req) ==
    req.op \in {"lineDashed", "lineRelativeDashed", "linePolarDashed"} =>
        LET e == Ends(req) IN HasLength(Sub(e[3], e[1]), Sub(e[4], e[2]))

InitDash ==
    \E req \in LineRequests \cup DashedRequests : Measurable(req) /\ InitWith(req)

NextDash ==
    \/ LineAngle(Args("lineAngle"))
    \/ LineAngleDashed(Args("lineAngleDashed"))
    \/ LineDashed(Args("lineDashed"))
    \/ LinePolar(Args("linePolar"))
    \/ LinePolarDashed(Args("linePolarDashed"))
    \/ LinePolarRelative(Args("linePolarRelative"))
    \/ LinePolarRelativeDashed(Args("linePolarRelativeDashed"))
    \/ LineRelative(Args("lineRelative"))
    \/ LineRelativeDashed(Args("lineRelativeDashed"))

SpecDash == InitDash /\ [][NextDash]_vars

\* the point num/den of the way from p to q, along one axis
Along(p, q, num, den) == Add(p, DivInt(Mul(Q(num), Sub(q, p)), den))

\* the part-th of the parts equal parts of the segment e, parts counted from 0
Part(e, part, parts) ==
    LineCall(Along(e[1], e[3], part, parts), Along(e[2], e[4], part, parts),
             Along(e[1], e[3], part + 1, parts), Along(e[2], e[4], part + 1, parts))

\* C9: lineDashed and lineAngleDashed with num_dashes >= 1, given or defaulted,
\* draw exactly num_dashes lines, the i-th covering part 2*i of the 2*num_dashes-1
\* equal parts of the span from the start point to the end point: the first starts
\* at the start point, the last ends at the end point, and lineAngleDashed returns
\* that end point, which is the endpoint lineAngle returns.
C9_DashesCoverEvenParts ==
    (call.op \in {"lineDashed", "lineAngleDashed"}
        /\ (call.args[Len(call.args)] = None \/ call.args[Len(call.args)][1] >= 1)) =>
        LET given == call.args[Len(call.args)]
            n == IF given = None THEN Len(out) ELSE given[1]
            e == Ends(call)
        IN  /\ call.raised = "none"
            /\ n >= 1
            /\ Len(out) = n
            /\ \A i \in 0..(n - 1) : out[i + 1] = Part(e, 2 * i, 2 * n - 1)
            /\ out[1].a[1] = e[1] /\ out[1].a[2] = e[2]
            /\ out[n].a[3] = e[3] /\ out[n].a[4] = e[4]
            /\ call.op = "lineAngleDashed" =>
                 /\ call.ret = <<out[n].a[3], out[n].a[4]>>
                 /\ call.ret = lineAngle(call.args[1], call.args[2], call.args[3],
                                         call.args[4], call.args[5]).ret

\* three dashes of a slanted line in degrees, none of zero length
C9_Witness ==
    /\ call.op = "lineAngleDashed"
    /\ call.args[4] = 150 /\ ~call.args[5]
    /\ call.args[6] = <<3>>
    /\ Len(out) = 3
    /\ out[3].a[1] # out[3].a[3]
    /\ call.ret = <<out[3].a[3], out[3].a[4]>>

DashedFamily ==
    {"lineAngleDashed", "lineDashed", "linePolarDashed", "linePolarRelativeDashed",
     "lineRelativeDashed"}

\* the square of a number
Square(p) == Mul(p, p)

\* p <= q for rational numbers
Leq(p, q) == p[1] * q[3] <= q[1] * p[3]

\* C10: a dashed-line call without num_dashes draws floor(L/30) + 2 dashes, L
\* being the length of the segment (|r| for the angle-based forms, the Euclidean
\* distance otherwise): at least 2, and for L = 0 exactly 2 dashes of zero length,
\* without an error.
C10_DefaultDashCount ==
    (call.op \in DashedFamily /\ call.args[Len(call.args)] = None) =>
        LET e == Ends(call)
            len2 == Add(Square(Sub(e[3], e[1])), Square(Sub(e[4], e[2])))
            k == Len(out) - 2
        IN  /\ call.raised = "none"
            /\ k >= 0
            /\ Leq(Q(900 * k * k), len2)
            /\ ~Leq(Q(900 * (k + 1) * (k + 1)), len2)
            /\ call.op \in {"lineAngleDashed", "linePolarRelativeDashed"} =>
                 LET r == call.args[IF call.op = "lineAngleDashed" THEN 3 ELSE 5][1]
                 IN  30 * k <= Abs(r) /\ Abs(r) < 30 * (k + 1)
            /\ len2 = Q(0) =>
                 /\ Len(out) = 2
                 /\ \A i \in 1..2 : out[i] = LineCall(e[1], e[2], e[1], e[2])

\* a slanted segment of length 60, drawn as 4 dashes
C10_Witness ==
    /\ call.op = "lineRelativeDashed"
    /\ call.args[3] = Q(-36) /\ call.args[4] = Q(48)
    /\ call.args[5] = None
    /\ Len(out) = 4

(***************************************************************************)
(* SpecAnchor: one anchored image or string on drawn arguments.            *)
(***************************************************************************)
DrawAnchoredImage(A) ==
    \E a \in A :
        /\ Do("drawAnchoredImage", a,
             drawAnchoredImage(a[1], a[2], a[3], a[4], a[5], a[6]))
        /\ UNCHANGED <<fontSize, lastSize>>

DrawAnchoredString(A) ==
    \E a \in A :
        /\ Do("drawAnchoredString", a,
             drawAnchoredString(a[1], a[2], a[3], a[4], fontSize))
        /\ UNCHANGED <<fontSize, lastSize>>

MaxAnchorLen == 2

MaxImage == 3

MaxSize == 4

AnchorChars == {"n", "s", "e", "w", "c", "x"}

Anchors == UNION {[1..n -> AnchorChars] : n \in 0..MaxAnchorLen}

NineTokens ==
    {<<"n", "w">>, <<"n">>, <<"n", "e">>, <<"w">>, <<"c">>, <<"e">>,
     <<"s", "w">>, <<"s">>, <<"s", "e">>}

Sizes == {None} \cup {<<n>> : n \in -MaxSize..MaxSize}

Texts == {"", "x", "Ag"}

ImageRequests ==
    {Request("drawAnchoredImage", <<<<3, 2>>, x, -1, width, height, anchor>>) :
        x \in Coords, width \in {None, <<-3>>, <<4>>}, height \in {None, <<5>>},
        anchor \in Anchors}
    \cup
    {Request("drawAnchoredImage", <<<<iw, ih>>, 0, 1, width, height, anchor>>) :
        iw \in 1..MaxImage, ih \in 1..MaxImage, width \in Sizes, height \in Sizes,
        anchor \in {<<"c">>, <<"n", "w">>, <<"s", "e">>}}

StringRequests ==
    {Request("drawAnchoredString", <<x, y, text, anchor>>) :
        x \in Coords, y \in Coords, text \in Texts, anchor \in Anchors}

InitAnchor == \E req \in ImageRequests \cup StringRequests : InitWith(req)

NextAnchor ==
    \/ DrawAnchoredImage(Args("drawAnchoredImage"))
    \/ DrawAnchoredString(Args("drawAnchoredString"))

SpecAnchor == InitAnchor /\ [][NextAnchor]_vars

IsDraw(c) ==
    c.fn \in {"drawImage", "drawString", "drawRightString", "drawCentredString"}

\* the anchor argument of the last call
AnchorOf(c) == IF c.op = "drawAnchoredImage" THEN c.args[6] ELSE c.args[4]

\* C5: for an anchor that is none of the nine tokens, the empty one included,
\* drawAnchoredImage and drawAnchoredString raise nothing and issue the drawing
\* call, placed at the centre or middle on each axis whose governing character
\* (the first for the vertical axis, the last for the horizontal) is unmatched.
C5_MalformedAnchorIsCentred ==
    (call.op \in {"drawAnchoredImage", "drawAnchoredString"}
        /\ AnchorOf(call) \notin NineTokens) =>
        LET anchor == AnchorOf(call)
            draws == SelectSeq(out, IsDraw)
            d == draws[1]
            lastUnmatched == anchor = <<>> \/ anchor[Len(anchor)] \notin {"w", "e"}
            firstUnmatched == anchor = <<>> \/ anchor[1] \notin {"s", "n"}
        IN  /\ call.raised = "none"
            /\ Len(draws) = 1
            /\ call.op = "drawAnchoredImage" =>
                 /\ lastUnmatched => d.a[1] = Sub(Q(call.args[2]), DivInt(Q(d.a[3]), 2))
                 /\ firstUnmatched => d.a[2] = Sub(Q(call.args[3]), DivInt(Q(d.a[4]), 2))
            /\ call.op = "drawAnchoredString" =>
                 /\ lastUnmatched => d.fn = "drawCentredString"
                 /\ firstUnmatched =>
                      d.a[2] = Sub(Q(call.args[2]),
                                   DivInt(TextHeight(call.args[3], fontSize), 2))

\* twice the share of the width and of the height taken off x and y, per token
TokenShares(anchor) ==
    CASE anchor = <<"n", "w">> -> <<0, 2>>
      [] anchor = <<"n">> -> <<1, 2>>
      [] anchor = <<"n", "e">> -> <<2, 2>>
      [] anchor = <<"w">> -> <<0, 1>>
      [] anchor = <<"c">> -> <<1, 1>>
      [] anchor = <<"e">> -> <<2, 1>>
      [] anchor = <<"s", "w">> -> <<0, 0>>
      [] anchor = <<"s">> -> <<1, 0>>
      [] anchor = <<"s", "e">> -> <<2, 0>>

\* C6: for each of the nine tokens drawAnchoredImage draws the image at
\* (x - x_offset, y - y_offset): x_offset is 0, width/2 or width for a token
\* ending in w, in neither, or in e; y_offset is 0, height/2 or height for a
\* token starting with s, with neither, or with n; width and height being the
\* final size, the one handed to the image draw.
C6_AnchorOffsets ==
    (call.op = "drawAnchoredImage" /\ call.args[6] \in NineTokens) =>
        LET d == out[1]
            share == TokenShares(call.args[6])
        IN  /\ call.raised = "none"
            /\ Len(out) = 1
            /\ d.fn = "drawImage"
            /\ d.a[1] = Sub(Q(call.args[2]), DivInt(Q(share[1] * d.a[3]), 2))
            /\ d.a[2] = Sub(Q(call.args[3]), DivInt(Q(share[2] * d.a[4]), 2))

\* an image of odd negative width anchored at its north-west corner
C6_Witness ==
    /\ call.op = "drawAnchoredImage"
    /\ call.args[6] = <<"n", "w">>
    /\ out[1].a[3] = -3
    /\ out[1].a[4] = 5
    /\ out[1].a[1] = Q(call.args[2])
    /\ out[1].a[2] = Q(call.args[3] - 5)

\* the greatest integer q with q * b <= a, for b > 0
Floor(a, b) == CHOOSE q \in -Abs(a)..Abs(a) : q * b <= a /\ a < (q + 1) * b

\* the sizes drawAnchoredImage hands to the image draw, the derived one being
\* the truncated or the floored quotient of size * num by den
SizesDrawn(truncating) ==
    call.op = "drawAnchoredImage" /\ call.args[6] # <<>> =>
        LET quot(a, b) == IF truncating THEN TruncDiv(a, b) ELSE Floor(a, b)
            iw == call.args[1][1]
            ih == call.args[1][2]
            width == call.args[4]
            height == call.args[5]
            w == out[1].a[3]
            h == out[1].a[4]
        IN  /\ (width = None /\ height = None) => (w = iw /\ h = ih)
            /\ (width = None /\ height # None) =>
                 (h = height[1] /\ w = quot(height[1] * iw, ih))
            /\ (width # None /\ height = None) =>
                 (w = width[1] /\ h = quot(width[1] * ih, iw))
            /\ (width # None /\ height # None) => (w = width[1] /\ h = height[1])

\* C7 as claimed: with only one of width and height given, the other is the given
\* one scaled by the intrinsic ratio with integer-truncating division, negative
\* sizes included; with neither given both are the intrinsic size; with both
\* given both are passed through.
C7_ScaleTruncates == SizesDrawn(TRUE)

\* C7 as amended: the derived size is the floor of the scaled size (rounded
\* towards minus infinity, as Python's // does), which is the truncated quotient
\* only when the scaled size is not negative or the division is exact.
C7_ScaleFloors == SizesDrawn(FALSE)

\* a height of -3 on a 1 x 2 image gives the width -2, not the truncated -1
C7_Witness ==
    /\ call.op = "drawAnchoredImage"
    /\ call.args[1] = <<1, 2>>
    /\ call.args[4] = None /\ call.args[5] = <<-3>>
    /\ out[1].a[3] = -2
    /\ out[1].a[4] = -3

(***************************************************************************)
(* SpecFont: sequences of font-setting and drawing calls.                  *)
(***************************************************************************)
RectCoords(A) ==
    \E a \in A :
        /\ Do("rectCoords", a, rectCoords(a[1], a[2], a[3], a[4]))
        /\ UNCHANGED <<fontSize, lastSize>>

\* super().setFontSize(size=size): the surface returns, or raises
StockSetFontSize(size, fails) ==
    IF fails THEN Raises(<<[fn |-> "setFontSize", a |-> <<size>>]>>, "SurfaceError")
    ELSE Returns(<<[fn |-> "setFontSize", a |-> <<size>>]>>, None)

SetFont(names, sizes) ==
    \E psfontname \in names, size \in sizes :
        LET res == StockSetFont(psfontname, size)
        IN  /\ Do("setFont", <<psfontname, size>>, res)
            /\ fontSize' = IF res.raised = "none"
                           THEN ShadowAfterSetFont(size, fontSize)
                           ELSE fontSize
            /\ lastSize' = IF res.raised = "none" THEN size ELSE lastSize

SetFontSize(sizes) ==
    \E size \in {None} \cup {<<n>> : n \in sizes}, fails \in BOOLEAN :
        LET res == StockSetFontSize(size, fails)
        IN  /\ Do("setFontSize", <<size>>, res)
            /\ fontSize' = IF res.raised = "none"
                           THEN ShadowAfterSetFontSize(size, fontSize)
                           ELSE fontSize
            /\ lastSize' = IF res.raised = "none" /\ size # None
                           THEN size[1]
                           ELSE lastSize

FontNames == KnownFonts \cup {"NoSuchFont"}

FontSizes == {10, 18, 24}

FontStringArgs ==
    {<<0, y, text, anchor>> :
        y \in {0, 1}, text \in Texts,
        anchor \in {<<"n", "w">>, <<"c">>, <<"s", "e">>, <<"x">>, <<>>}}

FontImageArgs == {<<<<3, 2>>, 0, 0, None, <<5>>, anchor>> : anchor \in {<<"c">>, <<"n", "e">>}}

FontRectArgs == {<<5, 5, 1, 1>>, <<0, 0, 2, 3>>}

FontDashArgs == {<<Q(0), Q(0), Q(31), 30, FALSE, n>> : n \in {None, <<2>>}}

NextFont ==
    \/ SetFont(FontNames, FontSizes)
    \/ SetFontSize(FontSizes)
    \/ DrawAnchoredString(FontStringArgs)
    \/ DrawAnchoredImage(FontImageArgs)
    \/ RectCoords(FontRectArgs)
    \/ LineAngleDashed(FontDashArgs)
    \/ ArrowAngle(StateAngleArgs, {0})

SpecFont == Init /\ [][NextFont]_vars

Next == NextState \/ NextFont

Spec == Init /\ [][Next]_vars

====
